---- MODULE Spec2Model ----
(***************************************************************************)
(* A model of richtablebuilder.py: the Obj path accessor (ObjType), the    *)
(* per-field pipeline (TableField), the table assembly (TableBuilder, in   *)
(* normal and transposed orientation) and the style_by_value memo.         *)
(*                                                                         *)
(* Python values are encoded uniformly as records                          *)
(*   [kind, num, text, items]                                              *)
(* kind "none" is None, "int" an integer (num), "str" a string (text),     *)
(* "dict" a mapping (items: key -> value), "obj" a plain object with       *)
(* attributes (items: attribute name -> value).  "MISSING" and             *)
(* "NO_DEFAULT" are the module's two sentinel objects.                     *)
(***************************************************************************)
EXTENDS Integers, Sequences, FiniteSets, TLC

VARIABLES
    pc,         \* the operation that produced the current state
    getter,     \* ObjType instance of the last accessor call
    obj,        \* its obj argument
    default,    \* its default argument
    result,     \* what the call did: [status, val, msg]
    class_body, \* the body of a builder class while its statements run, in order
    decl,       \* the last TableField(...) of that body: [key, out]
    fields,     \* cls._table_fields of the declared builder class, in order
    builder,    \* the TableBuilder instance: transposed, section_by, default_table_kwargs
    init_kwargs, \* the keyword options the instance was constructed with
    data,       \* the records handed to the build
    transposed, \* the transposed argument of the last build
    kwargs,     \* the keyword options of the last __call__
    table,      \* what the last build did: [status, val (the Table), msg]
    contents,   \* the TableFieldContent the last build computed for each field
    calls,      \* the calls made on the instance so far: [transposed, kwargs]
    seen_values, \* style_by_value's memo: entries [key, style], in insertion order
    rainbow_idx, \* _rainbow_idx, the position of rainbow_cycle
    gen_calls,  \* how many times format_value has invoked next_style
    log         \* the calls of format_value so far: [value, style returned]

objVars == <<getter, obj, default, result>>
buildVars ==
    <<fields, builder, init_kwargs, data, transposed, kwargs, table, contents, calls>>
styleVars == <<seen_values, rainbow_idx, gen_calls, log>>
declVars == <<class_body, decl>>
vars == <<pc, getter, obj, default, result, class_body, decl,
          fields, builder, init_kwargs, data, transposed, kwargs, table, contents, calls,
          seen_values, rainbow_idx, gen_calls, log>>

-----------------------------------------------------------------------------
(* Values *)

Mk(kind, num, text, items) ==
    [kind |-> kind, num |-> num, text |-> text, items |-> items]

NoneV == Mk("none", 0, "", <<>>)
IntV(n) == Mk("int", n, "", <<>>)
StrV(s) == Mk("str", 0, s, <<>>)
DictV(f) == Mk("dict", 0, "", f)
ObjV(f) == Mk("obj", 0, "", f)

NO_DEFAULT == Mk("NO_DEFAULT", 0, "", <<>>)
MISSING == Mk("MISSING", 0, "", <<>>)

(* What an operation did: it returned val, or raised status(msg). *)
Ok(v) == [status |-> "ok", val |-> v, msg |-> ""]
Raise(exc, msg) == [status |-> exc, val |-> NoneV, msg |-> msg]

-----------------------------------------------------------------------------
(* Input sets *)

MaxPathLen == 2

Keys == {"a", "b"}
Scalars == {NoneV, IntV(1)}
Containers(S) ==
    UNION {{DictV(f) : f \in [K -> S]} \cup {ObjV(f) : f \in [K -> S]} :
           K \in SUBSET Keys}
Flat == Scalars \cup Containers(Scalars)
Nested == Scalars \cup Containers(Flat)

Steps == [t : {"key", "attr"}, k : Keys]
Paths == UNION {[1..n -> Steps] : n \in 0..MaxPathLen}
TransformSeqs == {<<>>, <<"str">>}
Defaults ==
    {NO_DEFAULT, NoneV, IntV(1), StrV("default"),
     DictV([k \in {"b"} |-> IntV(1)]), ObjV([k \in {"b"} |-> IntV(1)])}

-----------------------------------------------------------------------------
(* str() and repr() of a value.  A dict prints its items in KeyOrder. *)

KeyOrder == <<"a", "b">>

RECURSIVE ReprV(_)
RECURSIVE ReprItems(_, _, _)

ReprItems(items, i, sep) ==
    IF i > Len(KeyOrder) THEN ""
    ELSE IF KeyOrder[i] \in DOMAIN items
         THEN sep \o "'" \o KeyOrder[i] \o "': " \o ReprV(items[KeyOrder[i]])
                  \o ReprItems(items, i + 1, ", ")
         ELSE ReprItems(items, i + 1, sep)

ReprV(v) ==
    CASE v.kind = "none" -> "None"
      [] v.kind = "int" -> ToString(v.num)
      [] v.kind = "str" -> "'" \o v.text \o "'"
      [] v.kind = "dict" -> "{" \o ReprItems(v.items, 1, "") \o "}"
      [] OTHER -> "<object>"

StrOf(v) == IF v.kind = "str" THEN v ELSE StrV(ReprV(v))

-----------------------------------------------------------------------------
(* ObjType *)

ObjType(accessors, transforms) ==
    [accessors |-> accessors, transforms |-> transforms]

Obj == ObjType(<<>>, <<>>)

(* ObjType.__getitem__ and __getattr__: a new path, one step longer. *)
ObjGetItem(self, k) ==
    ObjType(Append(self.accessors, [t |-> "key", k |-> k]), <<>>)
ObjGetAttr(self, k) ==
    ObjType(Append(self.accessors, [t |-> "attr", k |-> k]), <<>>)

(* ObjType.__repr__ *)
RECURSIVE ObjReprFrom(_, _)
ObjReprFrom(accessors, i) ==
    IF i > Len(accessors) THEN ""
    ELSE (IF accessors[i].t = "key"
          THEN "[" \o ReprV(StrV(accessors[i].k)) \o "]"
          ELSE "." \o accessors[i].k)
         \o ObjReprFrom(accessors, i + 1)

ObjRepr(self) == "Obj" \o ObjReprFrom(self.accessors, 1)

(* obj[k]: a dict has the key or raises KeyError, which __call__ catches   *)
(* and turns into MISSING; any other value here is not subscriptable by a  *)
(* string key and raises TypeError, which __call__ does not catch.         *)
Subscript(o, k) ==
    IF o.kind = "dict"
    THEN IF k \in DOMAIN o.items THEN Ok(o.items[k]) ELSE Ok(MISSING)
    ELSE Raise("TypeError", "")

(* getattr(obj, k, MISSING) *)
GetAttrOr(o, k) ==
    IF o.kind = "obj" /\ k \in DOMAIN o.items THEN Ok(o.items[k]) ELSE Ok(MISSING)

ApplyTransform(f, v) == StrOf(v)

RECURSIVE ApplyTransforms(_, _, _)
ApplyTransforms(transforms, i, v) ==
    IF i > Len(transforms) THEN Ok(v)
    ELSE ApplyTransforms(transforms, i + 1, ApplyTransform(transforms[i], v))

(* A KeyError naming only the steps up to the one that failed. *)
MissingErrorPrefix(self, i) ==
    Raise("KeyError", ObjRepr(ObjType(SubSeq(self.accessors, 1, i), <<>>)))

(* raise KeyError(f"{repr(self)}"), at step i *)
MissingError(self, i) == Raise("KeyError", ObjRepr(self))

(* The value a missing step leaves in obj when a default was given. *)
AfterMissing(dflt) == dflt

(* ObjType.__call__, from step i on with current value o *)
RECURSIVE ObjCallFrom(_, _, _, _)
ObjCallFrom(self, i, o, dflt) ==
    IF i > Len(self.accessors) THEN ApplyTransforms(self.transforms, 1, o)
    ELSE LET step == self.accessors[i]
             got == IF step.t = "key" THEN Subscript(o, step.k)
                                      ELSE GetAttrOr(o, step.k)
         IN  IF got.status # "ok" THEN got
             ELSE IF got.val = MISSING
                  THEN IF dflt = NO_DEFAULT
                       THEN MissingError(self, i)
                       ELSE ObjCallFrom(self, i + 1, AfterMissing(dflt), dflt)
                  ELSE ObjCallFrom(self, i + 1, got.val, dflt)

ObjCall(self, o, dflt) == ObjCallFrom(self, 1, o, dflt)

-----------------------------------------------------------------------------
(* The hand-chained lookup r[k1].k2...: "present" with its value, "absent" *)
(* when the first step that does not resolve names a key the mapping lacks *)
(* or an attribute the value lacks, "unsubscriptable" when it indexes a    *)
(* value that is no mapping.                                               *)
RECURSIVE Chain(_, _, _)
Chain(accessors, i, o) ==
    IF i > Len(accessors) THEN [at |-> "present", val |-> o, step |-> 0]
    ELSE LET s == accessors[i]
         IN  IF s.t = "key" /\ o.kind # "dict"
             THEN [at |-> "unsubscriptable", val |-> NoneV, step |-> i]
             ELSE IF s.k \in DOMAIN o.items /\
                     o.kind = (IF s.t = "key" THEN "dict" ELSE "obj")
                  THEN Chain(accessors, i + 1, o.items[s.k])
                  ELSE [at |-> "absent", val |-> NoneV, step |-> i]

-----------------------------------------------------------------------------
(* Renderables: a value, bare or wrapped by rich's Text / Styled. *)

FuncV(name) == Mk("func", 0, name, <<>>)
Callable(v) == v.kind = "func"

Plain(v) == [wrap |-> "", style |-> "", val |-> v]
Wrapped(w, v, style) == [wrap |-> w, style |-> style, val |-> v]
EmptyStr == Plain(StrV(""))

(* bool(x), as the "or" operator sees it.  Text is falsy when its text is  *)
(* empty; Styled defines neither __bool__ nor __len__ and is always truthy. *)
ValueTruthy(v) ==
    CASE v.kind = "none" -> FALSE
      [] v.kind = "int" -> v.num # 0
      [] v.kind = "str" -> v.text # ""
      [] v.kind = "dict" -> DOMAIN v.items # {}
      [] OTHER -> TRUE

Truthy(r) ==
    CASE r.wrap = "" -> ValueTruthy(r.val)
      [] r.wrap = "Text" -> r.val.text # ""
      [] OTHER -> TRUE

OrEmpty(r) == IF Truthy(r) THEN r ELSE EmptyStr

(* The first outcome of a sequence of outcomes that raised, if any. *)
RECURSIVE FirstRaise(_, _)
FirstRaise(outs, i) ==
    IF i > Len(outs) THEN Ok(NoneV)
    ELSE IF outs[i].status # "ok" THEN outs[i] ELSE FirstRaise(outs, i + 1)

Vals(outs) == [i \in 1..Len(outs) |-> outs[i].val]

-----------------------------------------------------------------------------
(* TableField *)

(* The key argument: None, a string, an Obj path, another callable. *)
KeyNone == [kind |-> "none", text |-> "", path |-> Obj]
KeyStr(k) == [kind |-> "str", text |-> k, path |-> Obj]
KeyObj(path) == [kind |-> "Obj", text |-> "", path |-> path]
KeyFunc(name) == [kind |-> "func", text |-> name, path |-> Obj]
KeyInt == [kind |-> "int", text |-> "", path |-> Obj]

(* A getter chosen without the final else: any other key is kept as it is. *)
GetterOfAnyKey(key) ==
    CASE key.kind = "none" -> Ok([kind |-> "Obj", text |-> "", path |-> Obj])
      [] key.kind = "str" ->
            Ok([kind |-> "Obj", text |-> "", path |-> ObjGetItem(Obj, key.text)])
      [] OTHER -> Ok(key)

(* TableField.__init__: the getter chosen for the key *)
GetterOf(key) ==
    CASE key.kind = "none" -> Ok([kind |-> "Obj", text |-> "", path |-> Obj])
      [] key.kind \in {"Obj", "func"} -> Ok(key)
      [] key.kind = "str" ->
            Ok([kind |-> "Obj", text |-> "", path |-> ObjGetItem(Obj, key.text)])
      [] OTHER -> Raise("TypeError", "Invalid key type")

TableField(header, footer, key, dflt, formatter, style, header_style, footer_style) ==
    [header |-> header, footer |-> footer, getter |-> GetterOf(key).val,
     default |-> dflt, formatter |-> formatter, style |-> style,
     header_style |-> header_style, footer_style |-> footer_style,
     justify |-> "left", name |-> ""]

(* TableField(...) as a statement of a class body: the new field, or the  *)
(* exception __init__ raises.                                              *)
DeclareTableField(header, footer, key, dflt, formatter, style, header_style, footer_style) ==
    IF GetterOf(key).status # "ok" THEN GetterOf(key)
    ELSE Ok(TableField(header, footer, key, dflt, formatter, style, header_style,
                       footer_style))

(* A user getter (record, default) -> record["a"]: the lookup is not       *)
(* guarded, as in the module's compute_subtotal.                           *)
UserGetter(name, o, dflt) ==
    IF o.kind # "dict" THEN Raise("TypeError", "")
    ELSE IF "a" \in DOMAIN o.items THEN Ok(o.items["a"])
    ELSE Raise("KeyError", "'a'")

CallGetter(g, o, dflt) ==
    IF g.kind = "Obj" THEN ObjCall(g.path, o, dflt) ELSE UserGetter(g.text, o, dflt)

(* No default handed on when the field declares none (None). *)
GetterDefaultIfDeclared(tf) == IF tf.default = NoneV THEN NO_DEFAULT ELSE tf.default

(* The default argument _get_field_value hands to the getter. *)
GetterDefault(tf) == tf.default

(* TableField._get_field_value *)
DefaultIfNone(tf, got) ==
    IF got.status # "ok" THEN got
    ELSE IF got.val = NoneV THEN Ok(tf.default) ELSE got

GetFieldValue(tf, o) ==
    DefaultIfNone(tf, CallGetter(tf.getter, o, GetterDefault(tf)))

(* self.formatter(val): str, a user formatter lambda v: f"${v}", or none *)
HasFormatter(tf) == tf.formatter # "none"
Formatter(tf, v) ==
    IF tf.formatter = "dollar" THEN StrV("$" \o StrOf(v).text) ELSE StrOf(v)

(* TableField._apply_style *)
ApplyStyle(v, style) ==
    IF v.kind = "str" THEN Wrapped("Text", v, style) ELSE Wrapped("Styled", v, style)

StyleOr(own, default_style) == IF own # "" THEN own ELSE default_style

(* TableField._format_field_value *)
FormatFieldValue(tf, val, apply_style, default_style) ==
    LET v1 == IF val = NoneV THEN StrV("") ELSE val
        v2 == IF HasFormatter(tf) /\ v1 # NoneV THEN Formatter(tf, v1) ELSE v1
    IN  IF apply_style THEN ApplyStyle(v2, StyleOr(tf.style, default_style))
        ELSE Plain(v2)

(* Reducers: sum, len, and first = lambda vs: vs[0] if vs else None *)
RECURSIVE SumNums(_, _)
SumNums(values, i) ==
    IF i > Len(values) THEN 0 ELSE values[i].num + SumNums(values, i + 1)

Reduce(rx, values) ==
    CASE rx.text = "sum" ->
            IF \A i \in 1..Len(values) : values[i].kind = "int"
            THEN Ok(IntV(SumNums(values, 1)))
            ELSE Raise("TypeError", "")
      [] rx.text = "len" -> Ok(IntV(Len(values)))
      [] OTHER -> IF Len(values) > 0 THEN Ok(values[1]) ELSE Ok(NoneV)

(* _reduce_and_format that hands the reduction back unformatted. *)
ReduceNoFormat(tf, rx, values) ==
    IF Callable(rx) THEN Reduce(rx, values) ELSE Ok(rx)

(* TableField._reduce_and_format *)
FormatReduced(tf, red) ==
    IF red.status # "ok" THEN red
    ELSE IF HasFormatter(tf) /\ red.val # NoneV
         THEN Ok(Formatter(tf, red.val))
         ELSE red

ReduceAndFormat(tf, rx, values) ==
    IF Callable(rx) THEN FormatReduced(tf, Reduce(rx, values)) ELSE Ok(rx)

(* TableField._get_header and _get_footer *)
StyleIfAsked(r, apply_style, style) ==
    IF r.status # "ok" THEN r
    ELSE IF apply_style THEN Ok(ApplyStyle(r.val, style)) ELSE Ok(Plain(r.val))

GetHeader(tf, values, apply_style, default_style) ==
    StyleIfAsked(ReduceAndFormat(tf, tf.header, values), apply_style,
                 StyleOr(tf.header_style, default_style))

GetFooter(tf, values, apply_style, default_style) ==
    StyleIfAsked(ReduceAndFormat(tf, tf.footer, values), apply_style,
                 StyleOr(tf.footer_style, default_style))

(* TableField.column *)
Column(tf, header, footer) ==
    [header |-> header, footer |-> footer, justify |-> tf.justify,
     style |-> tf.style, header_style |-> tf.header_style,
     footer_style |-> tf.footer_style]

-----------------------------------------------------------------------------
(* TableBuilder *)

(* table_kwargs.get(opt, dflt) *)
OptGet(kw, opt, dflt) == IF opt \in DOMAIN kw THEN kw[opt] ELSE dflt

(* for opt, val in kwargs.items(): d[opt] = val *)
Update(d, kw) ==
    [opt \in DOMAIN d \cup DOMAIN kw |-> IF opt \in DOMAIN kw THEN kw[opt] ELSE d[opt]]

(* TableBuilder._build_field_content; raw keeps the extracted values *)
FieldContent(tf, values, header, footer, table_kwargs, apply_style) ==
    IF header.status # "ok" THEN header
    ELSE IF footer.status # "ok" THEN footer
    ELSE Ok([header |-> header.val,
             values |-> [i \in 1..Len(values) |->
                            FormatFieldValue(tf, values[i], apply_style,
                                             OptGet(table_kwargs, "style", ""))],
             footer |-> footer.val,
             raw |-> values])

ContentOfValues(tf, values, table_kwargs, apply_style) ==
    FieldContent(tf, values,
                 GetHeader(tf, values, apply_style,
                           OptGet(table_kwargs, "header_style", "")),
                 GetFooter(tf, values, apply_style,
                           OptGet(table_kwargs, "footer_style", "")),
                 table_kwargs, apply_style)

ContentOfOutcomes(tf, outs, table_kwargs, apply_style) ==
    IF FirstRaise(outs, 1).status # "ok" THEN FirstRaise(outs, 1)
    ELSE ContentOfValues(tf, Vals(outs), table_kwargs, apply_style)

BuildFieldContent(tf, items, table_kwargs, apply_style) ==
    ContentOfOutcomes(tf, [i \in 1..Len(items) |-> GetFieldValue(tf, items[i])],
                      table_kwargs, apply_style)

(* TableBuilderMeta.__init__: the class body's TableField attributes, in  *)
(* declaration order, each named after its attribute when it has no name.  *)
IsTableField(v) == v.isfield

MetaFields(attrs) ==
    LET fs == SelectSeq(attrs, IsTableField)
    IN  [i \in 1..Len(fs) |->
            IF fs[i].field.name = "" THEN [fs[i].field EXCEPT !.name = fs[i].attr]
            ELSE fs[i].field]

BuiltinDefaults ==
    [show_header |-> TRUE, show_footer |-> FALSE, style |-> "none",
     header_style |-> "table.header", footer_style |-> "table.footer"]

(* default_table_kwargs of __init__: kwargs.get(opt, builtin) for the    *)
(* five built-in options, then every kwarg written over it                 *)
DefaultTableKwargs(kw) ==
    Update([opt \in DOMAIN BuiltinDefaults |-> OptGet(kw, opt, BuiltinDefaults[opt])],
           kw)

(* TableBuilder.__init__ *)
BuilderInit(transp, section_by, kw) ==
    [transposed |-> transp, section_by |-> section_by,
     default_table_kwargs |-> DefaultTableKwargs(kw)]

(* A user section function: the integer under "a", 0 for a record without. *)
SectionKey(section_by, item) ==
    IF item.kind = "dict" /\ "a" \in DOMAIN item.items /\ item.items["a"].kind = "int"
    THEN item.items["a"].num
    ELSE 0

(* An insertion before the elements of equal key. *)
InsertAtBeforeEqual(section_by, sortedItems, x) ==
    Cardinality({j \in 1..Len(sortedItems) :
                    SectionKey(section_by, sortedItems[j]) < SectionKey(section_by, x)})

(* Where sorted() puts x in an already sorted list: after every element    *)
(* whose key is not greater, so equal keys keep their order.               *)
InsertAt(section_by, sortedItems, x) ==
    Cardinality({j \in 1..Len(sortedItems) :
                    SectionKey(section_by, sortedItems[j]) <= SectionKey(section_by, x)})

(* sorted(items, key=self.section_by) *)
RECURSIVE SortedBy(_, _, _)
SortedBy(section_by, items, n) ==
    IF n = 0 THEN <<>>
    ELSE LET done == SortedBy(section_by, items, n - 1)
             at == InsertAt(section_by, done, items[n])
         IN  SubSeq(done, 1, at) \o <<items[n]>> \o SubSeq(done, at + 1, Len(done))

TrueMarker == 1

(* section_markers of _build_table_normal *)
SectionMarkers(section_by, items) ==
    IF section_by # "None"
    THEN [i \in 1..Len(items) |-> SectionKey(section_by, items[i])]
    ELSE [i \in 1..Len(items) |-> TrueMarker]

(* rich.table.Table: the constructor, add_row and add_section (which marks *)
(* the last row added as the end of a section)                             *)
NewTable(columns, table_kwargs) ==
    [columns |-> columns, rows |-> <<>>, options |-> table_kwargs]

AddRow(tbl, cells) ==
    [tbl EXCEPT !.rows = Append(@, [cells |-> cells, end_section |-> FALSE])]

AddSection(tbl) ==
    IF tbl.rows = <<>> THEN tbl
    ELSE [tbl EXCEPT !.rows[Len(tbl.rows)].end_section = TRUE]

(* marker != current_marker *)
MarkerDiffers(marker, current_marker) == marker # current_marker

(* The loop with every marker compared to the first one. *)
RECURSIVE AddRowsFixedBaseline(_, _, _, _, _)
AddRowsFixedBaseline(tbl, markers, rows, i, current_marker) ==
    IF i > Len(rows) \/ i > Len(markers) THEN tbl
    ELSE IF MarkerDiffers(markers[i], current_marker)
         THEN AddRowsFixedBaseline(AddRow(AddSection(tbl), rows[i]), markers, rows,
                                   i + 1, current_marker)
         ELSE AddRowsFixedBaseline(AddRow(tbl, rows[i]), markers, rows,
                                   i + 1, current_marker)

(* The loop "for marker, row in zip(section_markers, rows)" from row i on *)
RECURSIVE AddRows(_, _, _, _, _)
AddRows(tbl, markers, rows, i, current_marker) ==
    IF i > Len(rows) \/ i > Len(markers) THEN tbl
    ELSE IF MarkerDiffers(markers[i], current_marker)
         THEN AddRows(AddRow(AddSection(tbl), rows[i]), markers, rows, i + 1, markers[i])
         ELSE AddRows(AddRow(tbl, rows[i]), markers, rows, i + 1, current_marker)

(* The order in which the builder walks self._table_fields.values(). *)
FieldOrder(flds) == flds

(* items of _build_table_normal, after the optional sort *)
NormalItems(self, items0) ==
    IF self.section_by # "None"
    THEN SortedBy(self.section_by, items0, Len(items0))
    ELSE items0

(* column_content of each field, in _build_table_normal *)
NormalContents(self, flds, items0, table_kwargs) ==
    LET fs == FieldOrder(flds)
    IN  [f \in 1..Len(fs) |->
            BuildFieldContent(fs[f], NormalItems(self, items0), table_kwargs, FALSE)]

(* columns and rows of the normal table, from the column contents *)
NormalColumns(fs, cs) ==
    [f \in 1..Len(fs) |-> Column(fs[f], cs[f].val.header, OrEmpty(cs[f].val.footer))]

NormalRows(fs, cs, n) ==
    [r \in 1..n |-> [f \in 1..Len(fs) |-> cs[f].val.values[r]]]

(* for marker, row in zip(section_markers, rows): ... *)
AddMarkedRows(tbl, section_markers, rows) ==
    IF rows # <<>>
    THEN AddRows(tbl, section_markers, rows, 1, section_markers[1])
    ELSE tbl

NormalTable(self, fs, items, cs, table_kwargs) ==
    IF FirstRaise(cs, 1).status # "ok" THEN FirstRaise(cs, 1)
    ELSE Ok(AddMarkedRows(NewTable(NormalColumns(fs, cs), table_kwargs),
                          SectionMarkers(self.section_by, items),
                          NormalRows(fs, cs, Len(items))))

(* TableBuilder._build_table_normal *)
BuildTableNormal(self, flds, items0, table_kwargs) ==
    NormalTable(self, FieldOrder(flds), NormalItems(self, items0),
                NormalContents(self, flds, items0, table_kwargs), table_kwargs)

BoolInt(b) == IF b THEN 1 ELSE 0

(* rich's Column(f"row{n}") *)
RowColumn(n) ==
    [header |-> Plain(StrV("row" \o ToString(n))), footer |-> EmptyStr,
     justify |-> "left", style |-> "", header_style |-> "", footer_style |-> ""]

(* The merged options handed on as they are. *)
TransposedKwargsKept(table_kwargs) == table_kwargs

(* The options the transposed build hands to Table. *)
TransposedKwargs(table_kwargs) ==
    Update(table_kwargs, [show_header |-> FALSE, show_footer |-> FALSE])

(* One row of the transposed table *)
TransposedRow(content, show_header, show_footer) ==
    (IF show_header THEN <<OrEmpty(content.header)>> ELSE <<>>)
    \o content.values
    \o (IF show_footer THEN <<OrEmpty(content.footer)>> ELSE <<>>)

RECURSIVE AddAllRows(_, _, _)
AddAllRows(tbl, rows, i) ==
    IF i > Len(rows) THEN tbl ELSE AddAllRows(AddRow(tbl, rows[i]), rows, i + 1)

(* row_content of each field, in _build_table_transposed *)
TransposedContents(self, flds, values, table_kwargs0) ==
    LET fs == FieldOrder(flds)
    IN  [f \in 1..Len(fs) |->
            BuildFieldContent(fs[f], values, TransposedKwargs(table_kwargs0), TRUE)]

TransposedColumns(column_count) == [n \in 1..column_count |-> RowColumn(n - 1)]

TransposedTable(fs, values, cs, show_header, show_footer, table_kwargs) ==
    IF FirstRaise(cs, 1).status # "ok" THEN FirstRaise(cs, 1)
    ELSE Ok(AddAllRows(
                NewTable(TransposedColumns(Len(values) + BoolInt(show_header)
                                                       + BoolInt(show_footer)),
                         table_kwargs),
                [f \in 1..Len(fs) |->
                    TransposedRow(cs[f].val, show_header, show_footer)],
                1))

(* TableBuilder._build_table_transposed *)
BuildTableTransposed(self, flds, values, table_kwargs0) ==
    TransposedTable(FieldOrder(flds), values,
                    TransposedContents(self, flds, values, table_kwargs0),
                    OptGet(table_kwargs0, "show_header", TRUE),
                    OptGet(table_kwargs0, "show_footer", FALSE),
                    TransposedKwargs(table_kwargs0))

(* TableBuilder._build_table; the flag is "True", "False" or "None" *)
EffTransposed(self, transp) == IF transp = "None" THEN self.transposed ELSE transp

BuildTable(self, flds, items, table_kwargs, transp) ==
    IF EffTransposed(self, transp) = "True"
    THEN BuildTableTransposed(self, flds, items, table_kwargs)
    ELSE BuildTableNormal(self, flds, items, table_kwargs)

(* A merge in which the construction-time options win. *)
CallKwargsInitWins(self, kw) == Update(kw, self.default_table_kwargs)

(* table_kwargs of __call__: a copy of the defaults, overridden by kwargs *)
CallKwargs(self, kw) == Update(self.default_table_kwargs, kw)

(* table_kwargs of __call__ is the dict itself, not a copy of it. *)
DefaultsThemselves(self) == [shared |-> TRUE, d |-> self.default_table_kwargs]

(* self.default_table_kwargs.copy(): the dict __call__ and the build write *)
(* to is one of their own.                                                 *)
CopyOfDefaults(self) == [shared |-> FALSE, d |-> self.default_table_kwargs]

(* What table_kwargs holds when the build is over: the call's options are  *)
(* written to it, and a transposed build forces its two flags.             *)
KwargsAfterCall(self, transp, kw) ==
    IF EffTransposed(self, transp) = "True"
    THEN TransposedKwargs(CallKwargs(self, kw))
    ELSE CallKwargs(self, kw)

(* The instance after __call__: its options are what was written to them. *)
BuilderAfterCall(self, transp, kw) ==
    IF CopyOfDefaults(self).shared
    THEN [self EXCEPT !.default_table_kwargs = KwargsAfterCall(self, transp, kw)]
    ELSE self

(* TableBuilder.__call__ *)
BuilderCall(self, flds, items, transp, kw) ==
    BuildTable(self, flds, items, CallKwargs(self, kw), transp)

(* The field contents the same call computes on its way. *)
BuilderContents(self, flds, items, transp, kw) ==
    IF EffTransposed(self, transp) = "True"
    THEN TransposedContents(self, flds, items, CallKwargs(self, kw))
    ELSE NormalContents(self, flds, items, CallKwargs(self, kw))

(* What build() hands on to the call it makes on the new instance. *)
BuildCallFlag(transp) == "False"

(* TableBuilder.build: cls(transposed=..., section_by=..., **kwargs)(data) *)
ClassBuild(flds, items, transp, section_by, kw) ==
    BuilderCall(BuilderInit(transp, section_by, kw), flds, items,
                BuildCallFlag(transp), <<>>)

-----------------------------------------------------------------------------
(* rainbow_cycle and style_by_value *)

RAINBOW_COLORS ==
    <<"red", "orange1", "yellow2", "green3", "cyan1", "deep_sky_blue1",
      "dark_blue", "dark_violet">>

(* rainbow_cycle(): the colour at the index, and the index moved on *)
RainbowCycle(idx) ==
    [color |-> RAINBOW_COLORS[idx + 1], idx |-> (idx + 1) % Len(RAINBOW_COLORS)]

FloatV(n) == Mk("float", n, "", <<>>)
IsNumber(v) == v.kind \in {"int", "float"}

(* Equality of the objects themselves. *)
SameObject(x, y) == x = y

(* x == y with equal hashes, as a dict compares its keys: numbers by their *)
(* value whatever their type, anything else by type and content.           *)
KeyEq(x, y) == IF IsNumber(x) /\ IsNumber(y) THEN x.num = y.num ELSE x = y

(* value in seen_values *)
InSeen(seen, value) == \E i \in 1..Len(seen) : KeyEq(seen[i].key, value)

(* seen_values[value] *)
SeenStyle(seen, value) ==
    seen[CHOOSE i \in 1..Len(seen) : KeyEq(seen[i].key, value)].style

MaxCalls == 4
StyleValues == {StrV("A"), StrV("B"), IntV(1), FloatV(1)}

-----------------------------------------------------------------------------
(* Declared fields, records and options the builds are run on *)

MaxFields == 2
MaxRecords == 2
MaxSortRecords == 3
MaxBuilds == 2

Path2(t1, k1, t2, k2) ==
    ObjType(<<[t |-> t1, k |-> k1], [t |-> t2, k |-> k2]>>, <<>>)

(* TableField(header, footer, key, default, formatter, style,             *)
(*            header_style, footer_style)                                  *)
FieldA == TableField(StrV("A"), StrV("-"), KeyStr("a"), NoneV, "str", "", "", "")
FieldB ==
    TableField(StrV("B"), FuncV("sum"), KeyStr("b"), IntV(0), "dollar", "bold", "hb", "")
FieldAB ==
    TableField(FuncV("len"), FuncV("first"), KeyObj(Path2("key", "a", "key", "b")),
               NoneV, "str", "", "", "fb")
FieldSub == TableField(StrV(""), FuncV("sum"), KeyFunc("item_a"), NoneV, "none", "", "", "")
FieldSelf == TableField(StrV("I"), FuncV("first"), KeyNone, NoneV, "none", "dim", "", "")

FieldPool == {FieldA, FieldB, FieldAB, FieldSub, FieldSelf}

AttrNames == <<"f1", "f2", "f3", "f4">>

BodiesOf(pool, n) ==
    {[i \in 1..n |-> [attr |-> AttrNames[i], isfield |-> TRUE, field |-> fs[i]]] :
        fs \in [1..n -> pool]}

ClassBodies == UNION {BodiesOf(FieldPool, n) : n \in 0..MaxFields}

RecordPool ==
    { DictV([a |-> IntV(1), b |-> IntV(2)]),
      DictV([a |-> IntV(2), b |-> NoneV]),
      DictV([b |-> IntV(1)]),
      DictV([a |-> DictV([b |-> IntV(3)])]) }

DataLists == UNION {[1..n -> RecordPool] : n \in 0..MaxRecords}

(* For the row order: two records share the section key 1. *)
SortBodies == {<<>>} \cup BodiesOf({FieldA}, 1) \cup BodiesOf({FieldB, FieldSelf}, 2)

SortPool ==
    { DictV([a |-> IntV(1), b |-> IntV(2)]),
      DictV([a |-> IntV(1)]),
      DictV([a |-> IntV(2), b |-> IntV(1)]),
      DictV([b |-> IntV(1)]) }

SortLists == UNION {[1..n -> SortPool] : n \in 0..MaxSortRecords}

(* Keyword options for the merge: show_header, show_footer, style, title *)
BoolKwargs ==
    UNION {[D -> BOOLEAN] : D \in SUBSET {"show_header", "show_footer"}}
StrKwargs ==
    {<<>>, [title |-> "T"]} \cup
    {Update([style |-> st], t) : st \in {"red", "blue"}, t \in {<<>>, [title |-> "T"]}}
AllKwargs == {Update(b, st) : b \in BoolKwargs, st \in StrKwargs}
OptNames ==
    {"show_header", "show_footer", "style", "header_style", "footer_style", "title"}

OptBodies == BodiesOf({FieldA}, 1)
OptLists == {<<>>} \cup [1..1 -> {DictV([a |-> IntV(1), b |-> IntV(2)])}]

(* For the cells: a field like FieldB that declares no default, so that   *)
(* its values can be None.                                                 *)
FieldPrice ==
    TableField(StrV("P"), StrV(""), KeyStr("b"), NoneV, "dollar", "bold", "", "")

CellPool == {FieldA, FieldB, FieldPrice}
CellBodies == BodiesOf(CellPool, 1) \cup BodiesOf(CellPool, 2)

(* For builds one after the other on one instance *)
ReuseBodies == BodiesOf({FieldA}, 1) \cup BodiesOf({FieldB}, 1)
ReuseKwargs ==
    {<<>>, [show_footer |-> TRUE], [show_header |-> FALSE], [style |-> "red"],
     [show_footer |-> TRUE, title |-> "T"]}

(* Keys a class body declares its fields with, 42 among them. *)
DeclKeys ==
    {KeyNone, KeyStr("a"), KeyStr("b"), KeyObj(Path2("key", "a", "key", "b")),
     KeyFunc("item_a"), KeyInt}
DeclDefaults == {NoneV, IntV(0)}
DeclLists == {<<>>} \cup [1..1 -> RecordPool]
NoKwargs == {<<>>}

Flags == {"True", "False"}
SectionFns == {"None", "by_a"}
FewKwargs == {<<>>, [show_footer |-> TRUE], [show_header |-> FALSE, style |-> "red"]}

NoBuilder == BuilderInit("False", "None", <<>>)
NoTable == Ok(NewTable(<<>>, <<>>))

-----------------------------------------------------------------------------
(* Accessor calls: a path, an object and a default are drawn, then the    *)
(* path is called on them.                                                 *)

InitObj ==
    /\ getter \in {ObjType(p, tr) : p \in Paths, tr \in TransformSeqs}
    /\ obj \in Nested
    /\ default \in Defaults
    /\ result = Ok(NoneV)

IdleObj ==
    /\ getter = Obj
    /\ obj = NoneV
    /\ default = NO_DEFAULT
    /\ result = Ok(NoneV)

DoObjCall ==
    /\ pc = "ready"
    /\ pc' = "ObjCall"
    /\ result' = ObjCall(getter, obj, default)
    /\ UNCHANGED <<getter, obj, default>>
    /\ UNCHANGED buildVars
    /\ UNCHANGED declVars
    /\ UNCHANGED styleVars

(* Builds: a builder class is declared and records are drawn; the class is *)
(* then instantiated and the instance called, any number of times, or the  *)
(* class-level build is used.                                              *)

InitBuild(bodies, lists) ==
    /\ fields \in {MetaFields(b) : b \in bodies}
    /\ data \in lists
    /\ builder = NoBuilder
    /\ init_kwargs = <<>>
    /\ transposed = "False"
    /\ kwargs = <<>>
    /\ table = NoTable
    /\ contents = <<>>
    /\ calls = <<>>

IdleBuild == InitBuild({<<>>}, {<<>>})

(* No class body is being run. *)
NoDecl == [key |-> KeyNone, out |-> Ok(NoneV)]
IdleDecl == class_body = <<>> /\ decl = NoDecl

Construct(KwSet) ==
    /\ pc = "declared"
    /\ \E t \in Flags, s \in SectionFns, kw \in KwSet :
        /\ builder' = BuilderInit(t, s, kw)
        /\ init_kwargs' = kw
    /\ pc' = "constructed"
    /\ UNCHANGED <<fields, data, transposed, kwargs, table, contents, calls>>
    /\ UNCHANGED objVars
    /\ UNCHANGED declVars
    /\ UNCHANGED styleVars

Call(KwSet, From) ==
    /\ pc \in From
    /\ Len(calls) < MaxBuilds
    /\ \E t \in Flags, kw \in KwSet :
        /\ transposed' = t
        /\ kwargs' = kw
        /\ table' = BuilderCall(builder, fields, data, t, kw)
        /\ contents' = BuilderContents(builder, fields, data, t, kw)
        /\ builder' = BuilderAfterCall(builder, t, kw)
        /\ calls' = Append(calls, [transposed |-> t, kwargs |-> kw])
    /\ pc' = "called"
    /\ UNCHANGED <<fields, data, init_kwargs>>
    /\ UNCHANGED objVars
    /\ UNCHANGED declVars
    /\ UNCHANGED styleVars

Build(KwSet) ==
    /\ pc = "declared"
    /\ \E t \in Flags, s \in SectionFns, kw \in KwSet :
        /\ builder' = BuilderAfterCall(BuilderInit(t, s, kw), BuildCallFlag(t), <<>>)
        /\ init_kwargs' = kw
        /\ transposed' = t
        /\ calls' = <<[transposed |-> BuildCallFlag(t), kwargs |-> <<>>]>>
        /\ table' = ClassBuild(fields, data, t, s, kw)
        /\ contents' = BuilderContents(BuilderInit(t, s, kw), fields, data,
                                       BuildCallFlag(t), <<>>)
    /\ kwargs' = <<>>
    /\ pc' = "build"
    /\ UNCHANGED <<fields, data>>
    /\ UNCHANGED objVars
    /\ UNCHANGED declVars
    /\ UNCHANGED styleVars

(* A class body run statement by statement: name = TableField(...), one   *)
(* after the other; an exception ends the body and no class comes of it.   *)
BodyAfter(body, out) ==
    IF out.status = "ok"
    THEN Append(body, [attr |-> AttrNames[Len(body) + 1], isfield |-> TRUE,
                       field |-> out.val])
    ELSE body

DeclareField ==
    /\ pc = "body"
    /\ Len(class_body) < MaxFields
    /\ \E key \in DeclKeys, dflt \in DeclDefaults :
        /\ decl' = [key |-> key,
                    out |-> DeclareTableField(StrV("H"), FuncV("len"), key, dflt,
                                              "str", "", "", "")]
        /\ class_body' = BodyAfter(class_body, decl'.out)
        /\ pc' = IF decl'.out.status = "ok" THEN "body" ELSE "decl_error"
    /\ UNCHANGED buildVars
    /\ UNCHANGED objVars
    /\ UNCHANGED styleVars

(* The end of the class body: TableBuilderMeta.__init__ collects the fields *)
EndClass ==
    /\ pc = "body"
    /\ fields' = MetaFields(class_body)
    /\ pc' = "declared"
    /\ UNCHANGED <<builder, init_kwargs, data, transposed, kwargs, table, contents,
                   calls>>
    /\ UNCHANGED objVars
    /\ UNCHANGED declVars
    /\ UNCHANGED styleVars

(* style_by_value(rainbow_cycle): the formatter is made, then called on   *)
(* one value after another.                                                *)

InitStyle ==
    /\ seen_values = <<>>
    /\ rainbow_idx = 0
    /\ gen_calls = 0
    /\ log = <<>>

(* format_value(value) *)
FormatValue ==
    /\ pc = "style"
    /\ Len(log) < MaxCalls
    /\ \E value \in StyleValues :
        LET fresh == ~InSeen(seen_values, value)
            seen == IF fresh
                    THEN Append(seen_values,
                                [key |-> value, style |-> RainbowCycle(rainbow_idx).color])
                    ELSE seen_values
        IN  /\ seen_values' = seen
            /\ rainbow_idx' = IF fresh THEN RainbowCycle(rainbow_idx).idx ELSE rainbow_idx
            /\ gen_calls' = IF fresh THEN gen_calls + 1 ELSE gen_calls
            /\ log' = Append(log, [value |-> value, style |-> SeenStyle(seen, value)])
    /\ UNCHANGED pc
    /\ UNCHANGED objVars
    /\ UNCHANGED declVars
    /\ UNCHANGED buildVars

NextStyle == FormatValue

StyleInit == pc = "style" /\ IdleObj /\ IdleBuild /\ InitStyle /\ IdleDecl

SpecStyle == StyleInit /\ [][NextStyle]_vars

NextObj == DoObjCall

ObjInit == pc = "ready" /\ InitObj /\ IdleBuild /\ InitStyle /\ IdleDecl

SpecObj == ObjInit /\ [][NextObj]_vars

NextBuild == Construct(FewKwargs) \/ Call(FewKwargs, {"constructed"}) \/ Build(FewKwargs)

BuildInit == pc = "declared" /\ IdleObj /\ InitBuild(ClassBodies, DataLists) /\ InitStyle /\ IdleDecl

SpecBuild == BuildInit /\ [][NextBuild]_vars

SortInit == pc = "declared" /\ IdleObj /\ InitBuild(SortBodies, SortLists) /\ InitStyle /\ IdleDecl

SpecSort == SortInit /\ [][NextBuild]_vars

NextOpts == Construct(AllKwargs) \/ Call(AllKwargs, {"constructed"}) \/ Build(AllKwargs)

OptsInit == pc = "declared" /\ IdleObj /\ InitBuild(OptBodies, OptLists) /\ InitStyle /\ IdleDecl

SpecOpts == OptsInit /\ [][NextOpts]_vars

CellInit == pc = "declared" /\ IdleObj /\ InitBuild(CellBodies, DataLists) /\ InitStyle /\ IdleDecl

SpecCell == CellInit /\ [][NextBuild]_vars

NextReuse == Construct(ReuseKwargs) \/ Call(ReuseKwargs, {"constructed", "called"})

ReuseInit == pc = "declared" /\ IdleObj /\ InitBuild(ReuseBodies, OptLists) /\ InitStyle /\ IdleDecl

SpecReuse == ReuseInit /\ [][NextReuse]_vars

NextDecl ==
    DeclareField \/ EndClass \/ Construct(NoKwargs) \/ Call(NoKwargs, {"constructed"})
    \/ Build(NoKwargs)

DeclInit == pc = "body" /\ IdleObj /\ InitBuild({<<>>}, DeclLists) /\ InitStyle /\ IdleDecl

SpecDecl == DeclInit /\ [][NextDecl]_vars

-----------------------------------------------------------------------------
(* Properties of the accessor *)

Called == pc = "ObjCall"
Lookup == Chain(getter.accessors, 1, obj)

(* C1: a path with one or more steps, called with a default d on a record  *)
(* in which a step is absent, returns exactly d (no later step is looked   *)
(* up against d, no error).  Stated for paths without transforms.          *)
C1_DefaultReturned ==
    (/\ Called
     /\ Len(getter.accessors) >= 1
     /\ getter.transforms = <<>>
     /\ default # NO_DEFAULT
     /\ Lookup.at = "absent")
    => result = Ok(default)

(* The textual form of a path, built from its last step backwards. *)
RECURSIVE PathText(_, _)
PathText(accessors, n) ==
    IF n = 0 THEN "Obj"
    ELSE PathText(accessors, n - 1) \o
         (IF accessors[n].t = "attr" THEN "." \o accessors[n].k
          ELSE "['" \o accessors[n].k \o "']")

(* C2: called without a default on a record in which a step is absent,    *)
(* the path raises KeyError whose message is the text of the whole path,   *)
(* whichever step failed.                                                  *)
C2_MissingNamesFullPath ==
    (Called /\ default = NO_DEFAULT /\ Lookup.at = "absent")
    => /\ result.status = "KeyError"
       /\ result.msg = PathText(getter.accessors, Len(getter.accessors))

(* A two-step path whose first step is the absent one raised KeyError. *)
C2_Witness ==
    /\ Called
    /\ default = NO_DEFAULT
    /\ Len(getter.accessors) = 2
    /\ Lookup.at = "absent"
    /\ Lookup.step = 1
    /\ result.status = "KeyError"
    /\ result.msg = "Obj['a'].b"

-----------------------------------------------------------------------------
(* Properties of the builds *)

Built == pc \in {"called", "build"}
TableOk == table.status = "ok"

(* The orientation the build ran in: __call__ hands its flag on. *)
RanTransposed == pc = "called" /\ transposed = "True"
RanNormal == Built /\ ~RanTransposed

(* The option values in force: call-time, else construction-time, else     *)
(* built-in.                                                               *)
Given(opt) == opt \in DOMAIN kwargs \/ opt \in DOMAIN init_kwargs
EffOpt(opt) ==
    IF opt \in DOMAIN kwargs THEN kwargs[opt]
    ELSE IF opt \in DOMAIN init_kwargs THEN init_kwargs[opt]
    ELSE BuiltinDefaults[opt]

SecKey(r) == SectionKey(builder.section_by, r)

(* The arrangement of the records by a stable sort on the section key: the *)
(* one permutation that orders by key and, among equal keys, by position.  *)
StableOrder(items) ==
    CHOOSE p \in [1..Len(items) -> 1..Len(items)] :
        \A i, j \in 1..Len(items) :
            i < j => \/ SecKey(items[p[i]]) < SecKey(items[p[j]])
                     \/ /\ SecKey(items[p[i]]) = SecKey(items[p[j]])
                        /\ p[i] < p[j]

(* The record each emitted row (normal) or value column (transposed) is of *)
RowItems ==
    IF RanNormal /\ builder.section_by # "None"
    THEN [i \in 1..Len(data) |-> data[StableOrder(data)[i]]]
    ELSE data

(* The cell of field f for the i-th emitted record *)
Cell(f, i) ==
    IF RanTransposed
    THEN table.val.rows[f].cells[i + BoolInt(EffOpt("show_header"))]
    ELSE table.val.rows[i].cells[f]

PathField(tf) == tf.getter.kind = "Obj" /\ Len(tf.getter.path.accessors) >= 1
AbsentIn(tf, r) == Chain(tf.getter.path.accessors, 1, r).at = "absent"
TextOf(tf) == PathText(tf.getter.path.accessors, Len(tf.getter.path.accessors))

AbsentNoDefault(f, i) ==
    /\ PathField(fields[f])
    /\ fields[f].default = NoneV
    /\ AbsentIn(fields[f], data[i])

(* C3 as stated: a record lacks the path of a field declared without a     *)
(* default, so the build fails, and with one field declared it fails with  *)
(* the KeyError naming that path.                                          *)
C3_MissingPathFailsBuild ==
    (Built /\ \E f \in 1..Len(fields), i \in 1..Len(data) : AbsentNoDefault(f, i))
    => /\ table.status # "ok"
       /\ Len(fields) = 1 => (table.status = "KeyError" /\ table.msg = TextOf(fields[1]))

Fmt(tf, v) == IF HasFormatter(tf) THEN Formatter(tf, v) ELSE v

(* C3 amended: no build fails with the missing-path error of a field's     *)
(* accessor path, because the field always hands its default (None when    *)
(* none was declared) to the accessor; where a record lacks the key of a   *)
(* single-step path of a field without default and the build succeeds, the *)
(* record's cell is the formatter's rendering of the empty string.         *)
C3_MissingPathGivesEmptyCell ==
    Built =>
        /\ \A f \in 1..Len(fields) :
              PathField(fields[f]) =>
                  ~(table.status = "KeyError" /\ table.msg = TextOf(fields[f]))
        /\ TableOk =>
              \A f \in 1..Len(fields), i \in 1..Len(data) :
                  (/\ PathField(fields[f])
                   /\ Len(fields[f].getter.path.accessors) = 1
                   /\ fields[f].default = NoneV
                   /\ AbsentIn(fields[f], RowItems[i]))
                  => Cell(f, i).val = Fmt(fields[f], StrV(""))

(* A table was built, in normal orientation, from a record lacking key "a" *)
(* of field A, with an empty cell for it.                                  *)
C3_Witness ==
    /\ pc = "called" /\ transposed = "False" /\ TableOk
    /\ Len(fields) = 1 /\ fields[1].getter = FieldA.getter /\ fields[1].default = NoneV
    /\ Len(data) = 2
    /\ AbsentIn(fields[1], data[2])
    /\ table.val.rows[2].cells[1] = EmptyStr

(* C4: the class-level build gives the table that constructing with        *)
(* (section_by, options) and calling with (data, transposed) gives.        *)
C4_BuildIsConstructThenCall ==
    pc = "build"
    => table = BuilderCall(BuilderInit("False", builder.section_by, init_kwargs),
                           fields, data, transposed, <<>>)

(* What C5 says a header or footer is: the literal itself, or the          *)
(* formatter applied to the reduction of the extracted values.             *)
AsClaimed(tf, rx, got, raw) ==
    IF Callable(rx) THEN got.val = Fmt(tf, Reduce(rx, raw).val)
    ELSE got.val = rx

(* The same with a null reduction handed back as it is. *)
AsAmended(tf, rx, got, raw) ==
    IF Callable(rx)
    THEN got.val = (IF Reduce(rx, raw).val = NoneV THEN NoneV
                    ELSE Fmt(tf, Reduce(rx, raw).val))
    ELSE got.val = rx

(* The extracted values: one per record in row order, nulls replaced. *)
RawAsClaimed(tf, raw) ==
    /\ Len(raw) = Len(data)
    /\ \A i \in 1..Len(raw) :
          /\ raw[i] = NoneV => tf.default = NoneV
          /\ raw[i] = GetFieldValue(tf, RowItems[i]).val

(* C5 as stated *)
C5_FooterLiteralOrFormattedReduction ==
    Built =>
        \A f \in 1..Len(fields) :
            contents[f].status = "ok" =>
                /\ AsClaimed(fields[f], fields[f].footer, contents[f].val.footer,
                             contents[f].val.raw)
                /\ AsClaimed(fields[f], fields[f].header, contents[f].val.header,
                             contents[f].val.raw)
                /\ RawAsClaimed(fields[f], contents[f].val.raw)

(* C5 amended: a literal footer (header) is handed back unmodified and     *)
(* unformatted; a reducer's result is formatted when it is not null, and a *)
(* null reduction is handed back as null, unformatted.                     *)
C5_FooterLiteralOrNonNullFormatted ==
    Built =>
        \A f \in 1..Len(fields) :
            contents[f].status = "ok" =>
                /\ AsAmended(fields[f], fields[f].footer, contents[f].val.footer,
                             contents[f].val.raw)
                /\ AsAmended(fields[f], fields[f].header, contents[f].val.header,
                             contents[f].val.raw)
                /\ RawAsClaimed(fields[f], contents[f].val.raw)

(* Field B (footer=sum, a formatter, default 0) over b = 2 and a null b,   *)
(* beside field A with its literal footer.                                 *)
C5_Witness ==
    /\ pc = "called" /\ TableOk /\ Len(fields) = 2 /\ Len(data) = 2
    /\ fields[1].footer = StrV("-") /\ contents[1].val.footer = Plain(StrV("-"))
    /\ fields[2].footer = FuncV("sum") /\ fields[2].formatter = "dollar"
    /\ contents[2].val.raw = <<IntV(2), IntV(0)>>
    /\ contents[2].val.footer = Plain(StrV("$2"))
    /\ contents[2].val.header = Plain(StrV("B"))

(* C6: in a normal build a row ends a section exactly when a row follows  *)
(* it whose section key differs (so: one break per adjacent pair of        *)
(* differing keys, none between equal keys, none before the first row,     *)
(* none without a section function).                                       *)
C6_SectionBreaks ==
    (RanNormal /\ TableOk) =>
        \A i \in 1..Len(table.val.rows) :
            table.val.rows[i].end_section
            <=> /\ builder.section_by # "None"
                /\ i < Len(table.val.rows)
                /\ SecKey(RowItems[i]) # SecKey(RowItems[i + 1])

(* Rows with keys 1, 1, 2: the only break follows the second row. *)
C6_Witness ==
    /\ pc = "called" /\ RanNormal /\ TableOk
    /\ builder.section_by = "by_a"
    /\ Len(table.val.rows) = 3
    /\ <<SecKey(RowItems[1]), SecKey(RowItems[2]), SecKey(RowItems[3])>> = <<1, 1, 2>>
    /\ ~table.val.rows[1].end_section
    /\ table.val.rows[2].end_section
    /\ ~table.val.rows[3].end_section

(* C7: a normal build emits one row per record, in input order without a   *)
(* section function and in the stable order by section key with one; one   *)
(* column per field in declaration order; and the cells of row i are the   *)
(* fields' renderings of the i-th record of that order.                    *)
C7_RowAndColumnOrder ==
    (RanNormal /\ TableOk) =>
        /\ Len(table.val.rows) = Len(data)
        /\ Len(table.val.columns) = Len(fields)
        /\ \A f \in 1..Len(fields) :
              /\ fields[f].name = AttrNames[f]
              /\ table.val.columns[f].style = fields[f].style
              /\ ~Callable(fields[f].header)
                    => table.val.columns[f].header = Plain(fields[f].header)
        /\ \A i \in 1..Len(data) :
              /\ Len(table.val.rows[i].cells) = Len(fields)
              /\ \A f \in 1..Len(fields) :
                    table.val.rows[i].cells[f]
                    = FormatFieldValue(fields[f],
                                       GetFieldValue(fields[f], RowItems[i]).val,
                                       FALSE, "")

(* Records with keys 2, 1, 1 come out as the two of key 1 in their input   *)
(* order, then the one of key 2 (the second column shows the record).      *)
C7_Witness ==
    /\ pc = "called" /\ RanNormal /\ TableOk
    /\ builder.section_by = "by_a"
    /\ Len(fields) = 2 /\ fields[2].getter = FieldSelf.getter
    /\ data = <<DictV([a |-> IntV(2), b |-> IntV(1)]),
                DictV([a |-> IntV(1), b |-> IntV(2)]),
                DictV([a |-> IntV(1)])>>
    /\ table.val.rows[1].cells[2] = Plain(data[2])
    /\ table.val.rows[2].cells[2] = Plain(data[3])
    /\ table.val.rows[3].cells[2] = Plain(data[1])

(* What the options handed to Table are if merged as claimed *)
MergedAsClaimed(opt) ==
    IF Given(opt) \/ opt \in DOMAIN BuiltinDefaults
    THEN opt \in DOMAIN table.val.options /\ table.val.options[opt] = EffOpt(opt)
    ELSE opt \notin DOMAIN table.val.options

(* C9 as stated: every option handed to the renderer is the call-time      *)
(* value, else the construction-time value, else the built-in default,     *)
(* else absent.                                                            *)
C9_OptionPrecedence ==
    (Built /\ TableOk) => \A opt \in OptNames : MergedAsClaimed(opt)

(* C9 amended: the same, except that a transposed build hands show_header  *)
(* and show_footer to the renderer as false whatever the merge gave.       *)
C9_OptionPrecedenceButTransposedFlags ==
    (Built /\ TableOk) =>
        /\ DOMAIN table.val.options \subseteq OptNames
        /\ \A opt \in OptNames :
              IF RanTransposed /\ opt \in {"show_header", "show_footer"}
              THEN opt \in DOMAIN table.val.options /\ table.val.options[opt] = FALSE
              ELSE MergedAsClaimed(opt)

(* Call-time show_footer over a construction-time one, a construction-time *)
(* style, a built-in header_style, and no title.                           *)
C9_Witness ==
    /\ pc = "called" /\ RanNormal /\ TableOk
    /\ init_kwargs = [show_footer |-> FALSE, style |-> "red"]
    /\ kwargs = [show_footer |-> TRUE]
    /\ table.val.options =
          [show_header |-> TRUE, show_footer |-> TRUE, style |-> "red",
           header_style |-> "table.header", footer_style |-> "table.footer"]

(* C10: a normal build has one row per record and one column per field; a  *)
(* transposed build has one row per field and N + showHeader + showFooter  *)
(* columns, every row that many cells, the header cell first and the       *)
(* footer cell last when shown, and show_header and show_footer false in   *)
(* the options handed to the renderer.                                     *)
C10_Shape ==
    (Built /\ TableOk) =>
        IF RanTransposed
        THEN LET sh == BoolInt(EffOpt("show_header"))
                 sf == BoolInt(EffOpt("show_footer"))
                 width == Len(data) + sh + sf
             IN  /\ Len(table.val.rows) = Len(fields)
                 /\ Len(table.val.columns) = width
                 /\ table.val.options["show_header"] = FALSE
                 /\ table.val.options["show_footer"] = FALSE
                 /\ \A f \in 1..Len(fields) :
                       LET cells == table.val.rows[f].cells
                       IN  /\ Len(cells) = width
                           /\ sh = 1 => cells[1] = OrEmpty(contents[f].val.header)
                           /\ sf = 1 => cells[width] = OrEmpty(contents[f].val.footer)
                           /\ \A i \in 1..Len(data) :
                                 cells[i + sh] = contents[f].val.values[i]
        ELSE /\ Len(table.val.rows) = Len(data)
             /\ Len(table.val.columns) = Len(fields)
             /\ \A i \in 1..Len(data) : Len(table.val.rows[i].cells) = Len(fields)

(* Two fields over two records, transposed, header and footer both shown:  *)
(* two rows of four cells.                                                 *)
C10_Witness ==
    /\ RanTransposed /\ TableOk
    /\ Len(fields) = 2 /\ Len(data) = 2
    /\ EffOpt("show_header") /\ EffOpt("show_footer")
    /\ Len(table.val.columns) = 4
    /\ Len(table.val.rows) = 2
    /\ Len(table.val.rows[2].cells) = 4

-----------------------------------------------------------------------------
(* Properties of style_by_value *)

(* Values equal as Python compares them: 1 == 1.0. *)
EqualValues(x, y) == x = y \/ (IsNumber(x) /\ IsNumber(y) /\ x.num = y.num)

(* The first call made with a value equal to that of call i *)
FirstCall(i) ==
    CHOOSE j \in 1..i :
        /\ EqualValues(log[j].value, log[i].value)
        /\ \A k \in 1..(j - 1) : ~EqualValues(log[k].value, log[i].value)

FirstCalls == {FirstCall(i) : i \in 1..Len(log)}

(* C8: every call returns the style of the first call made with an equal   *)
(* value, the generator is invoked once per distinct value, and the n-th   *)
(* distinct value carries the generator's n-th style.                      *)
C8_StyleOfFirstSight ==
    /\ \A i \in 1..Len(log) : log[i].style = log[FirstCall(i)].style
    /\ gen_calls = Cardinality(FirstCalls)
    /\ \A j \in FirstCalls :
          log[j].style =
              RAINBOW_COLORS[((Cardinality({k \in FirstCalls : k <= j}) - 1)
                              % Len(RAINBOW_COLORS)) + 1]

(* The calls 1, "B", 1.0: the third carries the style of the first, whose  *)
(* value it equals, and "B" the generator's second style.                  *)
C8_Witness ==
    /\ Len(log) = 3
    /\ log[1] = [value |-> IntV(1), style |-> "red"]
    /\ log[2] = [value |-> StrV("B"), style |-> "orange1"]
    /\ log[3] = [value |-> FloatV(1), style |-> "red"]
    /\ gen_calls = 2

-----------------------------------------------------------------------------
(* Properties of the field declaration *)

ValidKey(key) == key.kind \in {"none", "func", "Obj", "str"}

(* The getter a valid key stands for: the identity accessor, the callable  *)
(* itself, or the accessor of the one key.                                 *)
GetterFor(key) ==
    CASE key.kind = "none" ->
            [kind |-> "Obj", text |-> "", path |-> ObjType(<<>>, <<>>)]
      [] key.kind = "str" ->
            [kind |-> "Obj", text |-> "",
             path |-> ObjType(<<[t |-> "key", k |-> key.text]>>, <<>>)]
      [] OTHER -> key

Declaring == decl # NoDecl

(* C11: a field declared with a key that is neither None, callable nor a   *)
(* string raises the invalid-key-type error in the class body, so that no  *)
(* class, no builder and no build comes of it; every field that is         *)
(* declared holds the getter of its key (identity accessor, the callable   *)
(* itself, or the one-key accessor), and no build fails with the           *)
(* invalid-key-type error.                                                 *)
C11_InvalidKeyFailsDeclaration ==
    /\ (Declaring /\ ~ValidKey(decl.key)) =>
            /\ decl.out = Raise("TypeError", "Invalid key type")
            /\ pc = "decl_error"
            /\ fields = <<>> /\ builder = NoBuilder /\ table = NoTable
    /\ (Declaring /\ ValidKey(decl.key)) =>
            /\ decl.out.status = "ok"
            /\ decl.out.val.getter = GetterFor(decl.key)
            /\ class_body[Len(class_body)].field = decl.out.val
    /\ \A f \in 1..Len(fields) : fields[f].getter.kind \in {"Obj", "func"}
    /\ Built => table.msg # "Invalid key type"

(* A body whose second field has the key 42: the first was declared. *)
C11_Witness ==
    /\ pc = "decl_error"
    /\ decl.key = KeyInt
    /\ Len(class_body) = 1
    /\ class_body[1].field.getter = GetterFor(KeyStr("a"))

-----------------------------------------------------------------------------
(* Properties of the cells *)

(* The value of field f extracted from the i-th emitted record, after the  *)
(* field default has replaced None.                                        *)
RawValue(f, i) == contents[f].val.raw[i]

(* C12: in a built table the cell of a None value is the empty renderable, *)
(* the formatter not having been invoked on it, and the cell of any other  *)
(* value is the formatter's rendering of that value.                       *)
C12_NullCellEmptyUnformatted ==
    (Built /\ TableOk) =>
        \A f \in 1..Len(fields) : \A i \in 1..Len(data) :
            IF RawValue(f, i) = NoneV
            THEN Cell(f, i).val = StrV("")
            ELSE Cell(f, i).val = Fmt(fields[f], RawValue(f, i))

-----------------------------------------------------------------------------
(* Properties of builds one after the other *)

(* C13: a build leaves the builder as it was: its stored options (with     *)
(* show_header and show_footer), its section function, its transposed flag *)
(* and its fields are those of before the call, and the table of any call, *)
(* first or later, is the table the same call gives on the instance as it  *)
(* was constructed.                                                        *)
C13_BuildLeavesBuilderUnchanged ==
    [][pc' = "called" =>
        /\ builder' = builder
        /\ fields' = fields
        /\ builder' = BuilderInit(builder.transposed, builder.section_by, init_kwargs)
        /\ table' = BuilderCall(BuilderInit(builder.transposed, builder.section_by,
                                             init_kwargs),
                                 fields, data, transposed', kwargs')]_vars

(* A normal build after a transposed one with overrides: the stored flags  *)
(* are still those of the construction and the header is shown.            *)
C13_Witness ==
    /\ pc = "called" /\ Len(calls) = 2
    /\ calls[1].transposed = "True" /\ calls[1].kwargs = [show_footer |-> TRUE]
    /\ calls[2].transposed = "False" /\ calls[2].kwargs = <<>>
    /\ init_kwargs = <<>>
    /\ builder.default_table_kwargs.show_header
    /\ ~builder.default_table_kwargs.show_footer
    /\ TableOk
    /\ table.val.options.show_header /\ ~table.val.options.show_footer

-----------------------------------------------------------------------------
(* Properties of the cell styling *)

ShownHeader == EffOpt("show_header")
ShownFooter == EffOpt("show_footer")

(* The cell carries the style st as a wrapping of its own. *)
StyledWith(cell, st) == cell.wrap # "" /\ cell.style = st

(* A field's own style when set, else the one of the options in force. *)
OwnOr(own, opt) == IF own # "" THEN own ELSE EffOpt(opt)

(* C14: in a transposed build every cell of every field row, empty ones    *)
(* included, is wrapped in a style: the header cell in the field's         *)
(* header_style, else the options' header_style; each value cell in the    *)
(* field's style, else the options' style; the footer cell in the field's  *)
(* footer_style, else the options' footer_style.  In a normal build no     *)
(* cell is wrapped.                                                        *)
C14_TransposedCellsStyled ==
    (Built /\ TableOk) =>
        IF RanTransposed
        THEN \A f \in 1..Len(fields) :
                LET cells == table.val.rows[f].cells
                    first == BoolInt(ShownHeader)
                IN  /\ ShownHeader =>
                            StyledWith(cells[1],
                                       OwnOr(fields[f].header_style, "header_style"))
                    /\ \A i \in 1..Len(data) :
                            StyledWith(cells[first + i], OwnOr(fields[f].style, "style"))
                    /\ ShownFooter =>
                            StyledWith(cells[Len(cells)],
                                       OwnOr(fields[f].footer_style, "footer_style"))
        ELSE \A r \in 1..Len(table.val.rows) :
                \A c \in 1..Len(table.val.rows[r].cells) :
                    table.val.rows[r].cells[c].wrap = ""

====
